---- MODULE Spec2Model ----
(***************************************************************************)
(* Model of the yarik mini-games: the frame loop (runner.py), the          *)
(* session-nesting games (games/mouse.py, games/collecting.py), the        *)
(* counting game (games/counting.py) and the image cache (image.py).       *)
(*                                                                         *)
(* Units.  Time is kept in milliseconds: clock.tick returns whole          *)
(* milliseconds and dt = tick / 1000, so 1.0 second is 1000.  Lengths are  *)
(* kept in hundredths of the source unit (pixels for the mouse game, map   *)
(* units for the collecting game), so speed * dt is                        *)
(* speed * dt_ms \div 10 hundredths.  The rounding of binary floating      *)
(* point is not modelled.                                                  *)
(***************************************************************************)
EXTENDS Integers, Sequences, FiniteSets, TLC

VARIABLES
    kind,       \* which game make_game builds: "mouse" or "collecting"
    pc,         \* position of run: "events", "step", "tick", "quit", "done", "crashed"
    running,    \* run's local `running`
    screen,     \* size <<w, h>> in pixels of the surface run draws to
    events,     \* run's local `events`: the batch collected in this iteration
    dt,         \* run's local `dt`, milliseconds
    session,    \* game.session: None or Some(session record)
    signal,     \* how the last Session.step call ended
    remaining,  \* history: len(self.items) when the last Session.step call ended
    elapsed,    \* history: dt summed over the steps of this session that ended with no item left
    number,     \* counting game: play_game's local `number`
    cpc,        \* counting game: position of main / play_game
    cevents,    \* counting game: the batch pg.event.get() returned in this frame
    ctimeout,   \* counting game: play_game's local `timeout`, milliseconds
    cdt,        \* counting game: play_game's local `dt`, milliseconds
    scaled,     \* Image.scaled: None or Some([image, size])
    resizes,    \* history: number of pygame.transform.scale calls made by Image.scale
    returned,   \* history: the surface returned by the last Image.scale call
    lastSize,   \* history: the size argument of the last Image.scale call
    cx,         \* run: the Context of this iteration, once built
    measured,   \* history: what the last clock.tick(60) returned, in ms
    drawn,      \* history: what this iteration's Session.step drew
    call,       \* utils: the function called last and its arguments
    result      \* utils: what that call returned

vars == <<kind, pc, running, screen, events, dt, session, signal, remaining, elapsed,
          number, cpc, cevents, ctimeout, cdt, scaled, resizes, returned, lastSize,
          cx, measured, drawn, call, result>>

runVars == <<kind, pc, running, screen, events, dt, session, signal, remaining, elapsed,
             cx, measured, drawn>>
countVars == <<number, cpc, cevents, ctimeout, cdt>>
imageVars == <<scaled, resizes, returned, lastSize>>
utilVars == <<call, result>>

----------------------------------------------------------------------------
(* Bounds *)

NumItems == 2        \* stands for num_items (16): items per session
MaxCountEvents == 2  \* events one pg.event.get() of the counting game returns
MaxResizes == 5      \* pygame.transform.scale calls one Image makes

----------------------------------------------------------------------------
(* Helpers *)

None == <<>>
Some(x) == <<x>>

Min(a, b) == IF a <= b THEN a ELSE b
Max(a, b) == IF a >= b THEN a ELSE b
Abs(a) == IF a >= 0 THEN a ELSE -a

Unit == 100                      \* hundredths per source length unit
Vector2(x, y) == <<x, y>>

----------------------------------------------------------------------------
(* utils.py *)

Rect2(xy, wh) == [xy |-> xy, wh |-> wh]
left(rect) == rect.xy[1]
top(rect) == rect.xy[2]
right(rect) == rect.xy[1] + rect.wh[1]
bottom(rect) == rect.xy[2] + rect.wh[2]
center(rect) == Vector2(rect.xy[1] + rect.wh[1] \div 2, rect.xy[2] + rect.wh[2] \div 2)

\* expand(rect, value) with value a vector; a float value v is Vector2(v, v)
expand(rect, value) ==
    Rect2(Vector2(rect.xy[1] - value[1], rect.xy[2] - value[2]),
          Vector2(rect.wh[1] + 2 * value[1], rect.wh[2] + 2 * value[2]))

\* mutant: no clamping
clamp_Identity(pos, rect) == pos

\* mutant: min and max applied in the other order
clamp_MinOfMax(pos, rect) ==
    Vector2(Min(right(rect), Max(pos[1], left(rect))),
            Min(bottom(rect), Max(pos[2], top(rect))))

clamp(pos, rect) ==
    Vector2(Max(left(rect), Min(pos[1], right(rect))),
            Max(top(rect), Min(pos[2], bottom(rect))))

\* random_uniform(rng, rect): the points rng.uniform can return lie between the
\* bounds of each axis; the model samples the top-left corner, the midpoint and
\* the midpoint shifted right by each of SampleShifts.
SampleShifts == {120}
between(v, a, b) == Min(a, b) <= v /\ v <= Max(a, b)
random_uniform(rect) ==
    LET mid == Vector2((left(rect) + right(rect)) \div 2, (top(rect) + bottom(rect)) \div 2)
        cand == {Vector2(left(rect), top(rect)), mid}
                  \cup {Vector2(mid[1] + d, mid[2]) : d \in SampleShifts}
    IN {p \in cand : between(p[1], left(rect), right(rect))
                     /\ between(p[2], top(rect), bottom(rect))}

----------------------------------------------------------------------------
(* Keyboard state read by pygame.key.get_pressed() *)

MoveKeys == {"K_UP", "K_w", "K_DOWN", "K_s", "K_LEFT", "K_a", "K_RIGHT", "K_d"}
\* the key states the model presses: none, each key alone, both keys of one
\* direction, opposite keys, diagonals, all four arrows
KeyStates ==
    {{}} \cup {{k} : k \in MoveKeys}
      \cup {{"K_UP", "K_w"}, {"K_LEFT", "K_RIGHT"}, {"K_w", "K_s"},
            {"K_UP", "K_RIGHT"}, {"K_s", "K_a"}, {"K_DOWN", "K_d"},
            {"K_UP", "K_DOWN", "K_LEFT", "K_RIGHT"}}

\* mutant: the four tests chained with elif, so that one key wins
MovePlayer_Elif(pos, speed, cxdt, keys) ==
    LET d == (speed * cxdt) \div 10
    IN IF "K_UP" \in keys \/ "K_w" \in keys THEN Vector2(pos[1], pos[2] - d)
       ELSE IF "K_DOWN" \in keys \/ "K_s" \in keys THEN Vector2(pos[1], pos[2] + d)
       ELSE IF "K_LEFT" \in keys \/ "K_a" \in keys THEN Vector2(pos[1] - d, pos[2])
       ELSE IF "K_RIGHT" \in keys \/ "K_d" \in keys THEN Vector2(pos[1] + d, pos[2])
       ELSE pos

\* The four `if keys[...] or keys[...]` statements of Session.step: speed is in
\* source units per second, dt in milliseconds, the result in hundredths.
MovePlayer(pos, speed, cxdt, keys) ==
    LET d == (speed * cxdt) \div 10
        y1 == IF "K_UP" \in keys \/ "K_w" \in keys THEN pos[2] - d ELSE pos[2]
        y2 == IF "K_DOWN" \in keys \/ "K_s" \in keys THEN y1 + d ELSE y1
        x1 == IF "K_LEFT" \in keys \/ "K_a" \in keys THEN pos[1] - d ELSE pos[1]
        x2 == IF "K_RIGHT" \in keys \/ "K_d" \in keys THEN x1 + d ELSE x1
    IN Vector2(x2, y2)

\* mutant: completion is signalled as soon as the collection is empty
Countdown_NoDelay(s, cxdt) ==
    IF Len(s.items) = 0
    THEN [raised |-> "StopIteration", s |-> s]
    ELSE [raised |-> "none", s |-> s]

\* mutant: the step that brings the timer to zero or below signals completion
Countdown_SameStep(s, cxdt) ==
    IF Len(s.items) = 0
    THEN IF s.timeout - cxdt > 0
         THEN [raised |-> "none", s |-> [s EXCEPT !.timeout = s.timeout - cxdt]]
         ELSE [raised |-> "StopIteration", s |-> [s EXCEPT !.timeout = s.timeout - cxdt]]
    ELSE [raised |-> "none", s |-> s]

\* the blits of Session.step: every item, then the player, then the score
Render(s) ==
    [items |-> [i \in 1..Len(s.items) |-> s.items[i].pos],
     player |-> s.player.pos,
     score |-> s.counter]

\* mutant: the timer runs whether or not items remain
Countdown_Always(s, cxdt) ==
    IF s.timeout > 0
    THEN [raised |-> "none", s |-> [s EXCEPT !.timeout = s.timeout - cxdt]]
    ELSE [raised |-> "StopIteration", s |-> s]

\* `if len(self.items) == 0: if self.timeout > 0.0: self.timeout -= cx.dt
\*  else: raise StopIteration()`, the tail of both Session.step methods.
Countdown(s, cxdt) ==
    IF Len(s.items) = 0
    THEN IF s.timeout > 0
         THEN [raised |-> "none", s |-> [s EXCEPT !.timeout = s.timeout - cxdt]]
         ELSE [raised |-> "StopIteration", s |-> s]
    ELSE [raised |-> "none", s |-> s]

----------------------------------------------------------------------------
(* games/mouse.py *)

MousePlayerSize == Vector2(64 * Unit, 64 * Unit)   \* size of assets/mouse.png scaled by 2
MouseItemSize == Vector2(32 * Unit, 32 * Unit)     \* size of assets/cheese.png scaled by 2
InitialTimeout == 1000                             \* self.timeout = 1.0

\* screen.get_rect(): Rect(0, 0, w, h); Rect2(rect) keeps xy and wh
get_rect(scr) == Rect2(Vector2(0, 0), Vector2(scr[1] * Unit, scr[2] * Unit))
\* Rect.center of an integer rectangle: (x + w // 2, y + h // 2)
RectCenter(scr) == Vector2((scr[1] \div 2) * Unit, (scr[2] \div 2) * Unit)

MouseItemPositions(scr) ==
    random_uniform(expand(get_rect(scr), Vector2(-(MouseItemSize[1] \div 2), -(MouseItemSize[2] \div 2))))

MouseSession_init(scr, positions) ==
    [viewport |-> get_rect(scr),
     player |-> [pos |-> RectCenter(scr), size |-> MousePlayerSize, speed |-> 300],
     items |-> [i \in 1..NumItems |-> [pos |-> positions[i], size |-> MouseItemSize]],
     timeout |-> InitialTimeout,
     counter |-> 0]

\* Rect.colliderect(a, b) called on the class with a Rect2 as `a`: Rect2 is not
\* a pygame.Rect, so the method descriptor raises TypeError before any test.
MouseCollide(a, b) == "TypeError"

MouseSession_step(s, cxdt, keys) ==
    LET moved == MovePlayer(s.player.pos, s.player.speed, cxdt, keys)
        half == Vector2(s.player.size[1] \div 2, s.player.size[2] \div 2)
        pos == clamp(moved, expand(s.viewport, Vector2(-half[1], -half[2])))
        s1 == [s EXCEPT !.player.pos = pos]
        r == Countdown(s1, cxdt)
    IN IF Len(s.items) > 0
       THEN \* the first iteration of `for item in self.items` raises
            [raised |-> MouseCollide(s1.player, s.items[1]), s |-> s1, drawn |-> Render(s)]
       ELSE [raised |-> r.raised, s |-> r.s, drawn |-> Render(s)]

\* MouseGame.step: returns the game's session field, what the call raised to
\* run, how the inner Session.step ended and how many items it left.
MouseGame_step(sess, scr, cxdt, keys, positions) ==
    LET s0 == IF sess = None THEN MouseSession_init(scr, positions) ELSE sess[1]
        r == MouseSession_step(s0, cxdt, keys)
    IN IF r.raised = "StopIteration"
       THEN [session |-> None, raised |-> "none", inner |-> r.raised, left |-> Len(r.s.items),
             drawn |-> r.drawn]
       ELSE [session |-> Some(r.s), raised |-> r.raised, inner |-> r.raised, left |-> Len(r.s.items),
             drawn |-> r.drawn]

----------------------------------------------------------------------------
(* games/collecting.py *)

MapSize == Vector2(42 * Unit, 24 * Unit)     \* Session(self, Vector2(42, 24))
PlayerRadius == 100                          \* radius=1.0
ItemRadius == 50                             \* item_radius = 0.5

CollectingItemPositions ==
    random_uniform(expand(Rect2(Vector2(0, 0), MapSize), Vector2(-ItemRadius, -ItemRadius)))

\* mutant: the new session starts with its timer already run out
CollectingSession_init_NoTimeout(positions) ==
    LET map_rect == Rect2(Vector2(0, 0), MapSize)
    IN [map_rect |-> map_rect,
        player |-> [pos |-> center(map_rect), radius |-> PlayerRadius, speed |-> 10],
        items |-> [i \in 1..NumItems |-> [pos |-> positions[i], radius |-> ItemRadius]],
        timeout |-> 0,
        counter |-> 0]

CollectingSession_init(positions) ==
    LET map_rect == Rect2(Vector2(0, 0), MapSize)
    IN [map_rect |-> map_rect,
        player |-> [pos |-> center(map_rect), radius |-> PlayerRadius, speed |-> 10],
        items |-> [i \in 1..NumItems |-> [pos |-> positions[i], radius |-> ItemRadius]],
        timeout |-> InitialTimeout,
        counter |-> 0]

\* player.pos.distance_to(item.pos) < (player.radius + item.radius), squared
Collected(player, item) ==
    LET dx == player.pos[1] - item.pos[1]
        dy == player.pos[2] - item.pos[2]
        r == player.radius + item.radius
    IN dx * dx + dy * dy < r * r

\* mutant: the frame is drawn after the update
CollectingSession_step_DrawLast(s, cxdt, keys) ==
    LET moved == MovePlayer(s.player.pos, s.player.speed, cxdt, keys)
        pos == clamp(moved, expand(s.map_rect, Vector2(-s.player.radius, -s.player.radius)))
        player == [s.player EXCEPT !.pos = pos]
        new_items == SelectSeq(s.items, LAMBDA item : ~Collected(player, item))
        s1 == [s EXCEPT !.player = player,
                        !.items = new_items,
                        !.counter = s.counter + (Len(s.items) - Len(new_items))]
        r == Countdown(s1, cxdt)
    IN [raised |-> r.raised, s |-> r.s, drawn |-> Render(r.s)]

\* mutant: the counter is raised once per step that collects, not per item
CollectingSession_step_OncePerStep(s, cxdt, keys) ==
    LET moved == MovePlayer(s.player.pos, s.player.speed, cxdt, keys)
        pos == clamp(moved, expand(s.map_rect, Vector2(-s.player.radius, -s.player.radius)))
        player == [s.player EXCEPT !.pos = pos]
        new_items == SelectSeq(s.items, LAMBDA item : ~Collected(player, item))
        s1 == [s EXCEPT !.player = player,
                        !.items = new_items,
                        !.counter = s.counter + (IF Len(new_items) < Len(s.items) THEN 1 ELSE 0)]
        r == Countdown(s1, cxdt)
    IN [raised |-> r.raised, s |-> r.s, drawn |-> Render(s)]

CollectingSession_step(s, cxdt, keys) ==
    LET moved == MovePlayer(s.player.pos, s.player.speed, cxdt, keys)
        pos == clamp(moved, expand(s.map_rect, Vector2(-s.player.radius, -s.player.radius)))
        player == [s.player EXCEPT !.pos = pos]
        new_items == SelectSeq(s.items, LAMBDA item : ~Collected(player, item))
        s1 == [s EXCEPT !.player = player,
                        !.items = new_items,
                        !.counter = s.counter + (Len(s.items) - Len(new_items))]
        r == Countdown(s1, cxdt)
    IN [raised |-> r.raised, s |-> r.s, drawn |-> Render(s)]

\* mutant: the session is kept when it signals completion
CollectingGame_step_Keep(sess, cxdt, keys, positions) ==
    LET s0 == IF sess = None THEN CollectingSession_init(positions) ELSE sess[1]
        r == CollectingSession_step(s0, cxdt, keys)
    IN [session |-> Some(r.s), raised |-> "none", inner |-> r.raised, left |-> Len(r.s.items),
             drawn |-> r.drawn]

CollectingGame_step(sess, cxdt, keys, positions) ==
    LET s0 == IF sess = None THEN CollectingSession_init(positions) ELSE sess[1]
        r == CollectingSession_step(s0, cxdt, keys)
    IN IF r.raised = "StopIteration"
       THEN [session |-> None, raised |-> "none", inner |-> r.raised, left |-> Len(r.s.items),
             drawn |-> r.drawn]
       ELSE [session |-> Some(r.s), raised |-> r.raised, inner |-> r.raised, left |-> Len(r.s.items),
             drawn |-> r.drawn]

----------------------------------------------------------------------------
(* runner.py *)

InitialWindowSize == <<1280, 720>>           \* run(MouseGame, (1280, 720))
ResizeSizes == {<<40, 30>>}                  \* sizes a VIDEORESIZE event may carry
TickIntervals == {0, 1000, 2000}                  \* values of clock.tick(60), milliseconds

Event(type, size) == [type |-> type, size |-> size]
QuitEvent == Event("QUIT", <<0, 0>>)
OtherEvent == Event("KEYDOWN", <<0, 0>>)
ResizeEvents == {Event("VIDEORESIZE", sz) : sz \in ResizeSizes}

\* pygame.event.get(): the batches the model delivers
EventBatches ==
    {<<>>, <<QuitEvent>>, <<OtherEvent>>}
      \cup {<<e>> : e \in ResizeEvents}
      \cup {<<QuitEvent, e>> : e \in ResizeEvents}
      \cup {<<e, Event("VIDEORESIZE", InitialWindowSize)>> : e \in ResizeEvents}

\* `for event in events:` of run, from event i on; st is [running, screen]
RECURSIVE HandleEvents(_, _, _)
HandleEvents(evs, i, st) ==
    IF i > Len(evs) THEN st
    ELSE LET e == evs[i]
             r == IF e.type = "QUIT" THEN FALSE ELSE st.running
             sc == IF e.type = "VIDEORESIZE" THEN e.size ELSE st.screen
         IN HandleEvents(evs, i + 1, [running |-> r, screen |-> sc])

\* mutant: the Context is built with the initial dt
Context_NoDt(scr, evs, d) == [screen |-> scr, events |-> evs, dt |-> 0]

\* Context(screen, events, dt)
Context(scr, evs, d) == [screen |-> scr, events |-> evs, dt |-> d]

\* game.step(cx) for the game make_game built
Game_step(k, sess, scr, cxdt, keys, positions) ==
    IF k = "mouse"
    THEN MouseGame_step(sess, scr, cxdt, keys, positions)
    ELSE CollectingGame_step(sess, cxdt, keys, positions)

\* the item positions Session.__init__ may draw
ItemPositions(k, scr) ==
    IF k = "mouse" THEN MouseItemPositions(scr) ELSE CollectingItemPositions

\* events = pygame.event.get() and the for loop over them
RunEvents ==
    /\ pc = "events"
    /\ \E evs \in EventBatches :
         LET st == HandleEvents(evs, 1, [running |-> running, screen |-> screen])
         IN /\ events' = evs
            /\ running' = st.running
            /\ screen' = st.screen
    /\ pc' = "step"
    /\ UNCHANGED <<kind, dt, session, signal, remaining, elapsed, cx, measured, drawn>>
    /\ UNCHANGED <<countVars, imageVars, utilVars>>

\* cx = Context(screen, events, dt); try: game.step(cx) except StopIteration: break
RunStep ==
    /\ pc = "step"
    /\ \E keys \in KeyStates :
       \E positions \in IF session = None
                        THEN [1..NumItems -> ItemPositions(kind, screen)]
                        ELSE {<<>>} :
         LET c == Context(screen, events, dt)
             r == Game_step(kind, session, c.screen, c.dt, keys, positions)
             base == IF session = None THEN 0 ELSE elapsed
         IN /\ session' = r.session
            /\ signal' = r.inner
            /\ remaining' = r.left
            /\ cx' = Some(c)
            /\ drawn' = Some(r.drawn)
            /\ elapsed' = IF r.inner = "none" /\ r.left = 0 THEN base + dt ELSE base
            /\ pc' = IF r.raised = "none" THEN "tick"
                     ELSE IF r.raised = "StopIteration" THEN "quit"
                     ELSE "crashed"
    /\ UNCHANGED <<kind, running, screen, events, dt, measured>>
    /\ UNCHANGED <<countVars, imageVars, utilVars>>

\* mutant: the loop condition is not evaluated
RunTick_Forever ==
    /\ pc = "tick"
    /\ \E ms \in TickIntervals : measured' = Some(ms) /\ dt' = ms
    /\ cx' = None /\ drawn' = None
    /\ pc' = "events"
    /\ UNCHANGED <<kind, running, screen, events, session, signal, remaining, elapsed>>
    /\ UNCHANGED <<countVars, imageVars, utilVars>>

\* pygame.display.flip(); dt = clock.tick(60) / 1000; then `while running`.
\* The iteration is over: its Context and its frame are no longer observed.
RunTick ==
    /\ pc = "tick"
    /\ \E ms \in TickIntervals : measured' = Some(ms) /\ dt' = ms
    /\ cx' = None /\ drawn' = None
    /\ pc' = IF running THEN "events" ELSE "quit"
    /\ UNCHANGED <<kind, running, screen, events, session, signal, remaining, elapsed>>
    /\ UNCHANGED <<countVars, imageVars, utilVars>>

\* pygame.quit()
RunQuit ==
    /\ pc = "quit"
    /\ pc' = "done"
    /\ UNCHANGED <<kind, running, screen, events, dt, session, signal, remaining, elapsed>>
    /\ UNCHANGED <<cx, measured, drawn>>
    /\ UNCHANGED <<countVars, imageVars, utilVars>>

IdleCount == number = 0 /\ cpc = "off" /\ cevents = <<>> /\ ctimeout = 0 /\ cdt = 0
IdleImage == scaled = None /\ resizes = 0 /\ returned = 0 /\ lastSize = <<0, 0>>
IdleUtils == call = None /\ result = None

Init ==
    /\ kind \in {"mouse", "collecting"}
    /\ pc = "events"
    /\ running = TRUE
    /\ screen = InitialWindowSize
    /\ events = <<>>
    /\ dt = 0
    /\ session = None
    /\ signal = "init"
    /\ remaining = 0
    /\ elapsed = 0
    /\ cx = None
    /\ measured = None
    /\ drawn = None
    /\ IdleCount
    /\ IdleImage
    /\ IdleUtils

Next == RunEvents \/ RunStep \/ RunTick \/ RunQuit

Spec == Init /\ [][Next]_vars

----------------------------------------------------------------------------
(* games/counting.py *)

CountingImages == 1          \* len(items): the list built from ["assets/apple.png"]
CountTickIntervals == {16}       \* values of clock.tick(60), milliseconds

DigitKeys == ("K_0" :> 0) @@ ("K_1" :> 1) @@ ("K_2" :> 2) @@ ("K_3" :> 3) @@ ("K_4" :> 4)
               @@ ("K_5" :> 5) @@ ("K_6" :> 6) @@ ("K_7" :> 7) @@ ("K_8" :> 8) @@ ("K_9" :> 9)
CountKeys == DOMAIN DigitKeys \cup {"K_MINUS", "K_EQUALS", "K_a"}

CountEvent(type, key) == [type |-> type, key |-> key]
CountEventSet ==
    {CountEvent("QUIT", "none"), CountEvent("MOUSEMOTION", "none")}
      \cup {CountEvent("KEYDOWN", k) : k \in CountKeys}
CountEventBatches == UNION {[1..n -> CountEventSet] : n \in 0..MaxCountEvents}

\* mutant: '-' and '=' are not clamped
KeyDown_Unclamped(n, key) ==
    IF key \in DOMAIN DigitKeys THEN DigitKeys[key]
    ELSE IF key = "K_MINUS" THEN n - 1
    ELSE IF key = "K_EQUALS" THEN n + 1
    ELSE n

\* mutant: '=' adds two
KeyDown_Skip(n, key) ==
    IF key \in DOMAIN DigitKeys THEN DigitKeys[key]
    ELSE IF key = "K_MINUS" THEN Max(0, n - 1)
    ELSE IF key = "K_EQUALS" THEN Min(10, n + 2)
    ELSE n

\* the body of `if event.type == pg.KEYDOWN:`
KeyDown(n, key) ==
    IF key \in DOMAIN DigitKeys THEN DigitKeys[key]
    ELSE IF key = "K_MINUS" THEN Max(0, n - 1)
    ELSE IF key = "K_EQUALS" THEN Min(10, n + 1)
    ELSE n

\* `for event in pg.event.get():` of play_game from event i on; a QUIT event
\* raises Exit and leaves the rest of the batch unhandled
RECURSIVE CountHandleEvents(_, _, _)
CountHandleEvents(evs, i, n) ==
    IF i > Len(evs) THEN [number |-> n, exit |-> FALSE]
    ELSE IF evs[i].type = "QUIT" THEN [number |-> n, exit |-> TRUE]
    ELSE IF evs[i].type = "KEYDOWN" THEN CountHandleEvents(evs, i + 1, KeyDown(n, evs[i].key))
    ELSE CountHandleEvents(evs, i + 1, n)

\* main calls play_game: dt = 0.0, timeout = 1.0, number = rng.randrange(1, 10)
CountStart ==
    /\ cpc = "start"
    /\ number' \in 1..9
    /\ ctimeout' = InitialTimeout
    /\ cdt' = 0
    /\ cpc' = "events"
    /\ UNCHANGED cevents
    /\ UNCHANGED <<runVars, imageVars, utilVars>>

\* the event loop at the top of a frame
CountEvents ==
    /\ cpc = "events"
    /\ \E evs \in CountEventBatches :
         LET r == CountHandleEvents(evs, 1, number)
         IN /\ cevents' = evs
            /\ number' = r.number
            /\ cpc' = IF r.exit THEN "exit" ELSE "frame"
    /\ UNCHANGED <<ctimeout, cdt>>
    /\ UNCHANGED <<runVars, imageVars, utilVars>>

\* mutant: the frame of a game whose list of images is empty
CountFrame_NoImages ==
    /\ cpc = "frame"
    /\ IF ctimeout <= 0
       THEN /\ cpc' = "start"
            /\ UNCHANGED <<ctimeout, cdt>>
       ELSE /\ ctimeout' = ctimeout - cdt
            /\ cdt' \in CountTickIntervals
            /\ cpc' = "events"
    /\ UNCHANGED <<number, cevents>>
    /\ UNCHANGED <<runVars, imageVars, utilVars>>

\* the rest of the frame: drawing, the `if len(items) == 0` countdown,
\* pg.display.flip() and dt = clock.tick(60) / 1000
CountFrame ==
    /\ cpc = "frame"
    /\ IF CountingImages = 0 /\ ctimeout <= 0
       THEN \* break; return True; main calls play_game again
            /\ cpc' = "start"
            /\ UNCHANGED <<ctimeout, cdt>>
       ELSE /\ ctimeout' = IF CountingImages = 0 THEN ctimeout - cdt ELSE ctimeout
            /\ cdt' \in CountTickIntervals
            /\ cpc' = "events"
    /\ UNCHANGED <<number, cevents>>
    /\ UNCHANGED <<runVars, imageVars, utilVars>>

\* main: except Exit: break; pg.quit()
CountExit ==
    /\ cpc = "exit"
    /\ cpc' = "done"
    /\ UNCHANGED <<number, cevents, ctimeout, cdt>>
    /\ UNCHANGED <<runVars, imageVars, utilVars>>

IdleRun ==
    /\ kind = "none" /\ pc = "off" /\ running = FALSE /\ screen = InitialWindowSize
    /\ events = <<>> /\ dt = 0 /\ session = None /\ signal = "init"
    /\ remaining = 0 /\ elapsed = 0
    /\ cx = None /\ measured = None /\ drawn = None

InitCounting ==
    /\ IdleRun
    /\ IdleImage
    /\ IdleUtils
    /\ number = 0
    /\ cpc = "start"
    /\ cevents = <<>>
    /\ ctimeout = 0
    /\ cdt = 0

NextCounting == CountStart \/ CountEvents \/ CountFrame \/ CountExit

SpecCounting == InitCounting /\ [][NextCounting]_vars

----------------------------------------------------------------------------
(* image.py *)

\* Sizes are kept in units of 1e-7 pixel, so that the tolerance of pygame's
\* Vector2 comparison can be told from equality.
Px == 10000000
VectorEpsilon == 10          \* Vector2.epsilon, 1e-6

ImageSizes ==
    {Vector2(w, h) : w \in {30 * Px, 60 * Px, 60 * Px + 6, 60 * Px + 12},
                     h \in {30 * Px, 30 * Px + 6}}

\* mutant: the sizes are compared exactly
VectorNe_Exact(a, b) == a # b

\* self.scaled.size != size: Vector2 compares each component within epsilon
VectorNe(a, b) == \E i \in 1..2 : Abs(a[i] - b[i]) >= VectorEpsilon

\* Image.scale(size) on the cache `cache`; `fresh` is the surface a call of
\* pygame.transform.scale would return
Image_scale(cache, size, fresh) ==
    LET kept == IF cache # None /\ VectorNe(cache[1].size, size) THEN None ELSE cache
    IN IF kept = None
       THEN [scaled |-> Some([image |-> fresh, size |-> size]), resized |-> TRUE]
       ELSE [scaled |-> kept, resized |-> FALSE]

\* one call image.scale(size); surfaces are numbered in the order they are made
ScaleCall ==
    /\ \E size \in ImageSizes :
         LET r == Image_scale(scaled, size, resizes + 1)
         IN /\ r.resized => resizes < MaxResizes
            /\ scaled' = r.scaled
            /\ resizes' = IF r.resized THEN resizes + 1 ELSE resizes
            /\ returned' = r.scaled[1].image
            /\ lastSize' = size
    /\ UNCHANGED <<runVars, countVars, utilVars>>

InitImage ==
    /\ IdleRun
    /\ IdleCount
    /\ IdleImage
    /\ IdleUtils

NextImage == ScaleCall

SpecImage == InitImage /\ [][NextImage]_vars

----------------------------------------------------------------------------
(* The movement and clamping functions on their own, for SpecUtils *)

\* player positions, speeds and frame times handed to the movement code
MovePositions == {Vector2(100 * Unit, 100 * Unit), Vector2(21 * Unit, 12 * Unit)}
MoveSpeeds == {300, 10}
MoveTimes == {0, 16, 100, 1000}

\* points and rectangles handed to clamp: the rectangles are expand(r, v) of
\* a Rect2, with v negative enough to leave a zero or negative extent
ClampCoords == {-100, 0, 100, 150, 200, 300}
ClampPoints == {Vector2(x, y) : x \in ClampCoords, y \in {0, 150}}
ClampRects ==
    {expand(Rect2(Vector2(0, 0), Vector2(200, 300)), Vector2(v, w)) :
        v \in {0, -50, -100, -150}, w \in {0, -150, -200}}

\* one Session.step's movement on the given player and keys
CallMove ==
    /\ \E pos \in MovePositions, speed \in MoveSpeeds, t \in MoveTimes, keys \in KeyStates :
         /\ call' = Some([fn |-> "move", pos |-> pos, speed |-> speed, dt |-> t, keys |-> keys])
         /\ result' = Some(MovePlayer(pos, speed, t, keys))
    /\ UNCHANGED <<runVars, countVars, imageVars>>

\* one call clamp(pos, rect)
CallClamp ==
    /\ \E pos \in ClampPoints, rect \in ClampRects :
         /\ call' = Some([fn |-> "clamp", pos |-> pos, rect |-> rect])
         /\ result' = Some(clamp(pos, rect))
    /\ UNCHANGED <<runVars, countVars, imageVars>>

InitUtils ==
    /\ IdleRun
    /\ IdleCount
    /\ IdleImage
    /\ IdleUtils

NextUtils == CallMove \/ CallClamp

SpecUtils == InitUtils /\ [][NextUtils]_vars

----------------------------------------------------------------------------
(* Properties of the frame loop and the sessions, checked under Spec *)

Active == session # None
Stepped == signal # "init"
PlayArea(s) == IF kind = "mouse" THEN s.viewport ELSE s.map_rect
PlayerHalf(s) ==
    IF kind = "mouse"
    THEN Vector2(s.player.size[1] \div 2, s.player.size[2] \div 2)
    ELSE Vector2(s.player.radius, s.player.radius)
PlayerSize(s) == IF kind = "mouse" THEN s.player.size ELSE Vector2(2 * s.player.radius, 2 * s.player.radius)
ItemSize(item) == IF kind = "mouse" THEN item.size ELSE Vector2(2 * item.radius, 2 * item.radius)
StepTaken == pc = "step" /\ pc' # "step"

\* C1: once the last item is collected, Session.step does not raise
\* StopIteration before the dt summed over the steps that ended with an empty
\* collection (from the step that collected the last item) is at least 1.0 s.
C1_NoEarlyCompletion == signal = "StopIteration" => elapsed >= 1000

C1_Witness == signal = "StopIteration" /\ elapsed >= 1000 /\ remaining = 0 /\ kind = "collecting"

\* C2 as stated: the step whose dt subtraction brings the timer from above zero
\* to zero or below is the step that raises StopIteration.
C2_SameStepCompletion ==
    [][(StepTaken /\ Active' /\ session'[1].timeout <= 0
          /\ (IF Active THEN session[1].timeout ELSE InitialTimeout) > 0)
       => signal' = "StopIteration"]_vars

\* C2 amended: Session.step raises StopIteration exactly in the steps that start
\* with an empty collection and a timer already at zero or below, that is in
\* the step after the one whose subtraction brought the timer there; the step
\* that performs that subtraction returns normally.
C2_NextStepCompletion ==
    [][StepTaken =>
         /\ (signal' = "StopIteration")
              <=> (Active /\ Len(session[1].items) = 0 /\ session[1].timeout <= 0)
         /\ (Active' /\ session'[1].timeout <= 0) => signal' = "none"]_vars

C2_Witness == Active /\ session[1].timeout <= 0 /\ signal = "none" /\ Len(session[1].items) = 0

\* C3: Session.step never raises StopIteration in a step that ends with an item
\* left, and the timeout keeps its initial value 1.0 while any item remains.
C3_TimerWaitsForItems ==
    /\ signal = "StopIteration" => remaining = 0
    /\ (Active /\ Len(session[1].items) > 0) => session[1].timeout = 1000

C3_Witness ==
    /\ Active /\ kind = "collecting" /\ signal = "none" /\ pc = "tick" /\ dt > 0
    /\ Len(session[1].items) > 0 /\ session[1].counter > 0

\* C4: the game holds at most one session; a step made with no session builds
\* one and steps it in the same call; after a step returns the game has no
\* session iff the inner Session.step raised StopIteration in that call; the
\* step after a completion builds a new session.
C4_SessionLifecycle ==
    /\ [](Len(session) <= 1)
    /\ []((pc = "tick") => (session = None <=> signal = "StopIteration"))
    /\ [][(StepTaken /\ session = None)
            => (session' # None /\ signal' \in {"none", "TypeError"}
                /\ session'[1].counter + remaining' = NumItems)]_vars
    /\ [][(StepTaken /\ signal = "StopIteration") => (session = None /\ session' # None)]_vars

C4_Witness == session = None /\ signal = "StopIteration" /\ pc = "step" /\ running

\* C5 as stated: the game's step is never invoked once a quit event has been
\* collected.
C5_NoStepAfterQuit == ~running => pc \notin {"tick", "crashed"}

\* C5 amended: a quit event only clears `running`; the iteration that collected
\* it still builds the Context and invokes the game's step once, and the loop
\* exits when its condition is next evaluated, so no later iteration collects
\* events or invokes the step.
C5_ExitAfterIteration ==
    /\ [](~running => pc # "events")
    /\ [][(pc = "step" /\ ~running) => (pc' \in {"tick", "crashed"} /\ signal' # "init")]_vars
    /\ [][(pc = "tick" /\ ~running) => pc' = "quit"]_vars

C5_Witness == ~running /\ pc = "quit" /\ signal = "none"

InsetLow(s, i) == PlayArea(s).xy[i] + PlayerHalf(s)[i]
InsetHigh(s, i) == PlayArea(s).xy[i] + PlayArea(s).wh[i] - PlayerHalf(s)[i]

\* C6 as stated: after every Session.step the player's position lies in the
\* play area inset by half the player's size, for every play area.
C6_PlayerInsideInset ==
    (Active /\ Stepped) =>
        \A i \in 1..2 :
            /\ InsetLow(session[1], i) <= session[1].player.pos[i]
            /\ session[1].player.pos[i] <= InsetHigh(session[1], i)

\* C6 amended: on each axis where the play area is at least as long as the
\* player, the coordinate lies in the inset range; on an axis where the play
\* area is shorter than the player the coordinate is the low bound plus half
\* the player's size.
C6_PlayerInsideInsetIfFits ==
    (Active /\ Stepped) =>
        \A i \in 1..2 :
            IF PlayArea(session[1]).wh[i] >= PlayerSize(session[1])[i]
            THEN /\ InsetLow(session[1], i) <= session[1].player.pos[i]
                 /\ session[1].player.pos[i] <= InsetHigh(session[1], i)
            ELSE session[1].player.pos[i] = InsetLow(session[1], i)

C6_Witness ==
    /\ Active /\ Stepped /\ kind = "collecting"
    /\ session[1].player.pos[1] = InsetHigh(session[1], 1)
    /\ session[1].player.pos[2] = InsetLow(session[1], 2)

\* Axis-aligned boxes centred at the two positions with half-extents one third
\* of each full size overlap, boundaries included.
BoxesOverlap(s, pos, item) ==
    \A i \in 1..2 : 3 * Abs(pos[i] - item.pos[i]) <= PlayerSize(s)[i] + ItemSize(item)[i]

Range(seq) == {seq[i] : i \in 1..Len(seq)}

\* C7 as stated: a step collects an item iff the boxes of the clamped player
\* position and of the item overlap: no overlapping item is left after a step,
\* and a step of a running session removes exactly the overlapping items.
C7_CollectedIffBoxesOverlap ==
    /\ []((Active /\ Stepped) =>
            \A i \in 1..Len(session[1].items) :
                ~BoxesOverlap(session[1], session[1].player.pos, session[1].items[i]))
    /\ [][(StepTaken /\ Active /\ Active') =>
            \A i \in 1..Len(session[1].items) :
                (session[1].items[i] \notin Range(session'[1].items))
                  <=> BoxesOverlap(session[1], session'[1].player.pos, session[1].items[i])]_vars

----------------------------------------------------------------------------
(* Properties of the counting game, checked under SpecCounting *)

\* C8: the initial number is in [1,9], and after any key-down events the
\* number is an integer in [0,10].
C8_NumberInRange ==
    /\ [](cpc \notin {"off", "start"} => number \in 0..10)
    /\ [][cpc = "start" => number' \in 1..9]_vars

C8_Witness ==
    /\ cpc = "frame" /\ number = 0 /\ Len(cevents) > 0
    /\ cevents[Len(cevents)] = CountEvent("KEYDOWN", "K_MINUS")

\* the effect of one key-down as the claim states it
ClaimedKey(n, key) ==
    CASE key = "K_MINUS" -> IF n - 1 < 0 THEN 0 ELSE n - 1
      [] key = "K_EQUALS" -> IF n + 1 > 10 THEN 10 ELSE n + 1
      [] key \in {"K_0", "K_1", "K_2", "K_3", "K_4", "K_5", "K_6", "K_7", "K_8", "K_9"} ->
            CHOOSE d \in 0..9 : key = <<"K_0", "K_1", "K_2", "K_3", "K_4",
                                        "K_5", "K_6", "K_7", "K_8", "K_9">>[d + 1]
      [] OTHER -> n

RECURSIVE ClaimedNumber(_, _, _)
ClaimedNumber(evs, i, n) ==
    IF i > Len(evs) THEN n
    ELSE ClaimedNumber(evs, i + 1,
                       IF evs[i].type = "KEYDOWN" THEN ClaimedKey(n, evs[i].key) ELSE n)

KeyPress(k) == CountEvent("KEYDOWN", k)

\* C9: a digit key sets the number to the digit, '-' gives max(0, n-1), '='
\* gives min(10, n+1), any other key leaves it; the events of a frame are
\* applied in the order received; 5 then three '=' gives 8, ten '-' from 0
\* leaves 0.
C9_KeyEffects ==
    /\ [][(cpc = "events" /\ cpc' = "frame")
            => number' = ClaimedNumber(cevents', 1, number)]_vars
    /\ [](cpc # "off" =>
            /\ CountHandleEvents(<<KeyPress("K_5"), KeyPress("K_EQUALS"), KeyPress("K_EQUALS"),
                                   KeyPress("K_EQUALS")>>, 1, number).number = 8
            /\ CountHandleEvents([i \in 1..10 |-> KeyPress("K_MINUS")], 1, 0).number = 0)

C9_Witness ==
    /\ cpc = "frame" /\ number = 10
    /\ cevents = <<KeyPress("K_9"), KeyPress("K_EQUALS")>>

\* C18: a round of the counting game never ends by itself: the countdown
\* never runs and play_game's loop is never broken out of, so play_game is
\* entered once, the number is drawn once and afterwards changes only through
\* key events, and the loop is left only by a quit event.
C18_RoundNeverEnds ==
    /\ [](cpc \in {"events", "frame", "exit", "done"} => ctimeout = 1000)
    /\ [][cpc = "frame" => cpc' = "events"]_vars
    /\ [][cpc # "start" => cpc' # "start"]_vars
    /\ [][number' # number => cpc \in {"start", "events"}]_vars
    /\ [](cpc \in {"exit", "done"} => \E i \in 1..Len(cevents) : cevents[i].type = "QUIT")

C18_Witness ==
    /\ cpc = "done" /\ ctimeout = 1000 /\ cdt > 0
    /\ Len(cevents) > 0 /\ cevents[Len(cevents)].type = "QUIT"

----------------------------------------------------------------------------
(* Properties of the image cache, checked under SpecImage *)

WithinEpsilon(a, b) == \A i \in 1..2 : Abs(a[i] - b[i]) < 10

----------------------------------------------------------------------------
(* Properties of the loop's exits, of new sessions, of the Context and of
   the drawn frame, checked under Spec *)

LoopEnded == pc \in {"quit", "done", "crashed"}

\* C12 as stated: with MouseGame or CollectingGame as the top-level game no
\* step call signals completion to run, over any number of completed rounds,
\* so the loop ends only through a quit event.
C12_LoopEndsOnlyByQuit ==
    /\ [][StepTaken => pc' # "quit"]_vars
    /\ [](LoopEnded => ~running)

\* the play area and the item half-size a session built now would have
FreshArea ==
    IF kind = "mouse"
    THEN Rect2(Vector2(0, 0), Vector2(screen[1] * Unit, screen[2] * Unit))
    ELSE Rect2(Vector2(0, 0), MapSize)
FreshItemHalf ==
    IF kind = "mouse"
    THEN Vector2(MouseItemSize[1] \div 2, MouseItemSize[2] \div 2)
    ELSE Vector2(ItemRadius, ItemRadius)
NewSession(positions) ==
    IF kind = "mouse" THEN MouseSession_init(screen, positions) ELSE CollectingSession_init(positions)

\* p lies in the play area inset by the item's half-size; when not `strict`,
\* between the two inset bounds of each axis in whichever order they come
ItemPlaced(p, strict) ==
    \A i \in 1..2 :
        LET lo == FreshArea.xy[i] + FreshItemHalf[i]
            hi == FreshArea.xy[i] + FreshArea.wh[i] - FreshItemHalf[i]
        IN IF strict THEN lo <= p[i] /\ p[i] <= hi ELSE between(p[i], lo, hi)

\* p is the centre of the play area; the mouse game takes Rect.center, whole
\* pixels rounded down
AtCentre(p) ==
    \A i \in 1..2 :
        LET twice == 2 * FreshArea.xy[i] + FreshArea.wh[i]
        IN IF kind = "mouse"
           THEN 0 <= twice - 2 * p[i] /\ twice - 2 * p[i] <= Unit
           ELSE 2 * p[i] = twice

FreshSession(s, strict) ==
    /\ s.counter = 0
    /\ s.timeout = 1000
    /\ Len(s.items) = NumItems
    /\ \A i \in 1..Len(s.items) : ItemPlaced(s.items[i].pos, strict)
    /\ AtCentre(s.player.pos)

\* the first frame of a session and the state its first step leaves
FreshFrame(d, s, nleft, t, strict) ==
    /\ d.score = 0
    /\ Len(d.items) = NumItems
    /\ \A i \in 1..Len(d.items) : ItemPlaced(d.items[i], strict)
    /\ AtCentre(d.player)
    /\ s.counter = NumItems - nleft
    /\ s.timeout = IF nleft = 0 THEN 1000 - t ELSE 1000

Constructing == pc = "step" /\ session = None

\* C13 as stated: every Session built, in the first step and after each
\* completed round, starts with counter 0, timeout 1.0, NumItems items each
\* inside the play area inset by the item's half-size and the player at the
\* centre; nothing of the round before carries over.
C13_FreshSessionInside ==
    /\ [](Constructing =>
            \A positions \in [1..NumItems -> ItemPositions(kind, screen)] :
                FreshSession(NewSession(positions), TRUE))
    /\ [][(StepTaken /\ session = None) =>
            FreshFrame(drawn'[1], session'[1], remaining', dt, TRUE)]_vars

\* C13 amended: as stated, except that on an axis on which the play area is
\* shorter than the item (a mouse game window resized below the cheese size)
\* the inset bounds cross and the item lies between them, outside the inset
\* area, which is empty; the mouse game's centre is in whole pixels.
C13_FreshSessionBetween ==
    /\ [](Constructing =>
            \A positions \in [1..NumItems -> ItemPositions(kind, screen)] :
                FreshSession(NewSession(positions), FALSE))
    /\ [][(StepTaken /\ session = None) =>
            FreshFrame(drawn'[1], session'[1], remaining', dt, FALSE)]_vars

C13_Witness ==
    /\ Constructing /\ signal = "StopIteration" /\ measured # None /\ dt > 0
    /\ elapsed >= 1000

RECURSIVE LastCreated(_, _, _)
\* the size of the surface the last VIDEORESIZE event of evs[i..] made, else scr
LastCreated(evs, i, scr) ==
    IF i > Len(evs) THEN scr
    ELSE LastCreated(evs, i + 1, IF evs[i].type = "VIDEORESIZE" THEN evs[i].size ELSE scr)

\* C15: the Context handed to step has dt 0 in the first iteration and
\* afterwards the interval the clock measured at the end of the iteration
\* before; its events are those collected in this iteration and its screen is
\* the surface made last, that of the iteration's last resize event if any.
C15_ContextOfIteration ==
    /\ [](cx # None =>
            /\ cx[1].dt = (IF measured = None THEN 0 ELSE measured[1])
            /\ cx[1].events = events
            /\ cx[1].screen = screen)
    /\ [][(pc = "events" /\ pc' = "step") => screen' = LastCreated(events', 1, screen)]_vars
    /\ [][StepTaken => (cx' # None /\ events' = events /\ screen' = screen /\ measured' = measured)]_vars

C15_Witness ==
    /\ cx # None /\ measured = Some(2000) /\ cx[1].dt = 2000
    /\ screen = <<40, 30>> /\ cx[1].screen = screen
    /\ \E i \in 1..Len(cx[1].events) : cx[1].events[i].type = "VIDEORESIZE"

RECURSIVE IsSubseq(_, _)
\* a is b with some elements left out, the others in b's order
IsSubseq(a, b) ==
    IF Len(a) = 0 THEN TRUE
    ELSE IF Len(b) = 0 THEN FALSE
    ELSE IF Head(a) = Head(b) THEN IsSubseq(Tail(a), Tail(b))
    ELSE IsSubseq(a, Tail(b))

\* C16: within a session, after every step the counter plus the number of
\* remaining items is NumItems; the counter never decreases, no item is added,
\* the remaining items keep their order and the counter rises in a step by
\* the number of items that step removes.
C16_CounterAccounts ==
    /\ [](Active => session[1].counter + Len(session[1].items) = NumItems)
    /\ [][(StepTaken /\ Active /\ Active') =>
            /\ session'[1].counter >= session[1].counter
            /\ IsSubseq(session'[1].items, session[1].items)
            /\ session'[1].counter - session[1].counter
                 = Len(session[1].items) - Len(session'[1].items)]_vars

C16_Witness ==
    /\ Active /\ pc = "tick" /\ session[1].counter = 1
    /\ Len(session[1].items) = NumItems - 1
    /\ drawn[1].score = 0

\* C17: Session.step draws before it updates: the items, the player position
\* and the score drawn in a step are those at the start of the step (those of
\* the new session when the step builds one), so an item the step collects is
\* still drawn and the score drawn does not count it.
C17_RenderBeforeUpdate ==
    [][StepTaken =>
         /\ drawn' # None
         /\ IF Active
            THEN /\ drawn'[1].items = [i \in 1..Len(session[1].items) |-> session[1].items[i].pos]
                 /\ drawn'[1].player = session[1].player.pos
                 /\ drawn'[1].score = session[1].counter
            ELSE /\ drawn'[1].score = 0
                 /\ Len(drawn'[1].items) = NumItems
                 /\ AtCentre(drawn'[1].player)
         /\ Active' =>
              /\ drawn'[1].score = session'[1].counter - (Len(drawn'[1].items) - Len(session'[1].items))
              /\ IsSubseq([i \in 1..Len(session'[1].items) |-> session'[1].items[i].pos],
                          drawn'[1].items)]_vars

C17_Witness ==
    /\ Active /\ pc = "tick" /\ drawn # None
    /\ Len(drawn[1].items) > Len(session[1].items)
    /\ drawn[1].score < session[1].counter
    /\ drawn[1].player # session[1].player.pos

----------------------------------------------------------------------------
(* Properties of the movement and clamping functions, checked under SpecUtils *)

Pressed(keys, arrow, letter) == IF arrow \in keys \/ letter \in keys THEN 1 ELSE 0

\* C11: the displacement of one step before clamping is
\* (speed*dt*(R - L), speed*dt*(D - U)), each of R, L, D, U being 1 when the
\* arrow or the WASD key of the direction is down; from (100,100) with speed
\* 300, dt 0.1 and only right down the player is at (130,100).
C11_Displacement ==
    (call # None /\ call[1].fn = "move") =>
        LET c == call[1]
            R == Pressed(c.keys, "K_RIGHT", "K_d")
            L == Pressed(c.keys, "K_LEFT", "K_a")
            D == Pressed(c.keys, "K_DOWN", "K_s")
            U == Pressed(c.keys, "K_UP", "K_w")
        IN /\ 10 * (result[1][1] - c.pos[1]) = c.speed * c.dt * (R - L)
           /\ 10 * (result[1][2] - c.pos[2]) = c.speed * c.dt * (D - U)
           /\ (c.pos = <<10000, 10000>> /\ c.speed = 300 /\ c.dt = 100 /\ c.keys = {"K_RIGHT"})
                => result[1] = <<13000, 10000>>

C11_Witness ==
    /\ call # None /\ call[1].fn = "move"
    /\ call[1].keys = {"K_UP", "K_RIGHT"} /\ call[1].dt = 100 /\ call[1].speed = 300
    /\ result[1] = <<call[1].pos[1] + 3000, call[1].pos[2] - 3000>>

InsideAxis(v, lo, hi) == lo <= v /\ v <= hi

\* C14 as stated: for every point and every rectangle, those of zero or
\* negative width or height included, clamp returns a point inside or on the
\* boundary of the rectangle, and the point itself when it is inside.
C14_ClampInside ==
    (call # None /\ call[1].fn = "clamp") =>
        LET p == call[1].pos
            r == call[1].rect
        IN /\ InsideAxis(result[1][1], left(r), right(r))
           /\ InsideAxis(result[1][2], top(r), bottom(r))
           /\ (InsideAxis(p[1], left(r), right(r)) /\ InsideAxis(p[2], top(r), bottom(r)))
                => result[1] = p

\* C14 amended: on each axis on which the rectangle's extent is zero or more
\* the returned coordinate lies within the rectangle and equals the point's
\* when that already does; on an axis of negative extent the returned
\* coordinate is the low edge (left, top), which lies outside the rectangle.
C14_ClampInsideIfExtent ==
    (call # None /\ call[1].fn = "clamp") =>
        LET p == call[1].pos
            r == call[1].rect
            lo == <<left(r), top(r)>>
            hi == <<right(r), bottom(r)>>
        IN \A i \in 1..2 :
              IF r.wh[i] >= 0
              THEN /\ InsideAxis(result[1][i], lo[i], hi[i])
                   /\ InsideAxis(p[i], lo[i], hi[i]) => result[1][i] = p[i]
              ELSE result[1][i] = lo[i] /\ ~InsideAxis(result[1][i], lo[i], hi[i])

C14_Witness ==
    /\ call # None /\ call[1].fn = "clamp"
    /\ call[1].rect.wh[1] < 0 /\ call[1].rect.wh[2] = 0
    /\ result[1] = call[1].rect.xy

====
